---- MODULE Spec2Model ----
(***************************************************************************)
(* A model of morituri/image/table.py: the two Table-of-Contents classes   *)
(* (Table over Track, IndexTable over ITTrack/Index), their boundary       *)
(* queries, the CDDB and AccurateRip identifiers, the AccurateRip URL and  *)
(* the cue-sheet writer.                                                   *)
(*                                                                         *)
(* One object is under test in a behaviour: a Table constructed from a     *)
(* finished list of Track, or an IndexTable that starts empty and is built *)
(* by appending ITTrack, calling ITTrack.index() and assigning leadout.    *)
(* Every call records what was called (call) and what came back (ret): a   *)
(* returned value or the exception the interpreter raises.                 *)
(*                                                                         *)
(* Python values: None is the empty tuple and a present optional value v   *)
(* is <<v>>, so that None compares with everything an attribute may hold.  *)
(* A str is the sequence of its characters.  Python ints are unbounded;    *)
(* frame offsets stay below 2^31 and are plain integers, the identifier    *)
(* accumulators, which exceed 2^31, are little-endian sequences of hex     *)
(* digits (Hex...).                                                        *)
(***************************************************************************)
EXTENDS Integers, Sequences, FiniteSets, TLC

VARIABLES kind, tracks, leadout, call, ret

vars == <<kind, tracks, leadout, call, ret>>

----------------------------------------------------------------------------
(* Bounds of the model *)

\* most tracks a table holds
MaxTracks == 2

\* a frame offset so large that the CDDB seconds field needs more than 24
\* bits and three of it exceed 2^32
BigFrame == 1610612736

\* frame offsets the inputs are drawn from
Frames == {0, 675, BigFrame}

\* index numbers index() is called with
IndexNumbers == {0, 1}

\* source files of a cue sheet
Paths == {"track01.wav", "track02.wav"}

\* file-relative offsets of a cue sheet
Relatives == {0, 1000}

----------------------------------------------------------------------------
(* Python values *)

None == <<>>

Some(v) == <<v>>

Ok(v) == [status |-> "ok", val |-> v]

Raise(e) == [status |-> "error", val |-> e]

\* list[i] of Python: a negative i counts from the end
ListGet(list, i) ==
  IF i >= 0 /\ i < Len(list) THEN Ok(list[i + 1])
  ELSE IF i < 0 /\ i >= -Len(list) THEN Ok(list[Len(list) + i + 1])
  ELSE Raise("IndexError")

\* a - b of Python where either may be None
PySub(a, b) ==
  IF a = None \/ b = None THEN Raise("TypeError") ELSE Ok(Some(a[1] - b[1]))

\* a + b of Python where either may be None
PyAdd(a, b) ==
  IF a = None \/ b = None THEN Raise("TypeError") ELSE Ok(Some(a[1] + b[1]))

----------------------------------------------------------------------------
(* Unbounded non-negative integers: little-endian hex digits, no leading   *)
(* zero digit; 0 is the empty sequence.                                    *)

RECURSIVE HexOf(_)
HexOf(i) == IF i = 0 THEN <<>> ELSE <<i % 16>> \o HexOf(i \div 16)

RECURSIVE HexNorm(_)
HexNorm(a) ==
  IF a = <<>> THEN a
  ELSE IF a[Len(a)] = 0 THEN HexNorm(SubSeq(a, 1, Len(a) - 1)) ELSE a

HexDigit(a, p) == IF p <= Len(a) THEN a[p] ELSE 0

RECURSIVE HexAddFrom(_, _, _, _)
HexAddFrom(a, b, p, carry) ==
  IF p > Len(a) /\ p > Len(b)
  THEN (IF carry = 0 THEN <<>> ELSE <<carry>>)
  ELSE LET s == HexDigit(a, p) + HexDigit(b, p) + carry
       IN  <<s % 16>> \o HexAddFrom(a, b, p + 1, s \div 16)

\* a + b
HexAdd(a, b) == HexNorm(HexAddFrom(a, b, 1, 0))

RECURSIVE HexMulFrom(_, _, _, _)
HexMulFrom(a, k, p, carry) ==
  IF p > Len(a) THEN HexOf(carry)
  ELSE LET s == a[p] * k + carry
       IN  <<s % 16>> \o HexMulFrom(a, k, p + 1, s \div 16)

\* a * k for a small k
HexMul(a, k) == HexNorm(HexMulFrom(a, k, 1, 0))

\* a << (4 * n)
HexShl(a, n) == IF a = <<>> THEN a ELSE [p \in 1..n |-> 0] \o a

RECURSIVE BitOr(_, _)
BitOr(x, y) ==
  IF x = 0 THEN y
  ELSE IF y = 0 THEN x
  ELSE (IF x % 2 = 1 \/ y % 2 = 1 THEN 1 ELSE 0) + 2 * BitOr(x \div 2, y \div 2)

RECURSIVE BitAndNot(_, _)
BitAndNot(x, y) ==
  IF x = 0 THEN 0
  ELSE (IF x % 2 = 1 /\ y % 2 = 0 THEN 1 ELSE 0)
       + 2 * BitAndNot(x \div 2, y \div 2)

Max(x, y) == IF x >= y THEN x ELSE y

\* a | b
HexOr(a, b) ==
  HexNorm([p \in 1..Max(Len(a), Len(b)) |-> BitOr(HexDigit(a, p), HexDigit(b, p))])

\* a & ~b
HexAndNot(a, b) ==
  HexNorm([p \in 1..Len(a) |-> BitAndNot(a[p], HexDigit(b, p))])

\* a & 0xffffffff
HexMask32(a) == HexNorm(SubSeq(a, 1, IF Len(a) < 8 THEN Len(a) ELSE 8))

HexChars ==
  <<"0", "1", "2", "3", "4", "5", "6", "7", "8", "9", "a", "b", "c", "d", "e", "f">>

\* the digits of a, most significant first, zero-padded on the left to width
\* w at least: what "%0<w>x" writes of a non-negative number
HexStr(a, w) ==
  LET n == Max(Len(a), w)
  IN  [p \in 1..n |-> HexChars[HexDigit(a, n + 1 - p) + 1]]

----------------------------------------------------------------------------
(* Signed Python ints for the CDDB value, whose seconds field is negative  *)
(* when the last track ends before the first one starts.                   *)

PyInt(i) == [neg |-> i < 0, mag |-> HexOf(IF i < 0 THEN -i ELSE i)]

RECURSIVE HexDec(_)
\* a - 1 for a > 0
HexDec(a) ==
  IF a[1] > 0 THEN HexNorm(<<a[1] - 1>> \o Tail(a)) ELSE <<15>> \o HexDec(Tail(a))

\* v << (4 * n)
PyShl(v, n) == [neg |-> v.neg, mag |-> HexShl(v.mag, n)]

\* a | b on two's complement of unbounded width: ~x = -x - 1, so for a
\* negative a and a non-negative b, a | b = ~(~a & ~b) = -((|a| - 1) & ~b) - 1
PyOr(a, b) ==
  IF ~a.neg /\ ~b.neg THEN [neg |-> FALSE, mag |-> HexOr(a.mag, b.mag)]
  ELSE IF a.neg /\ ~b.neg
       THEN [neg |-> TRUE, mag |-> HexAdd(HexAndNot(HexDec(a.mag), b.mag), <<1>>)]
  ELSE IF ~a.neg /\ b.neg
       THEN [neg |-> TRUE, mag |-> HexAdd(HexAndNot(HexDec(b.mag), a.mag), <<1>>)]
  ELSE LET x == HexDec(a.mag)
           y == HexDec(b.mag)
       IN  [neg |-> TRUE, mag |-> HexAdd(HexAndNot(x, HexAndNot(x, y)), <<1>>)]

\* "%08x" % v: the sign counts in the width
PyFormat08x(v) == IF v.neg THEN <<"-">> \o HexStr(v.mag, 7) ELSE HexStr(v.mag, 8)

RECURSIVE DecStrFrom(_, _)
DecStrFrom(i, w) ==
  IF i = 0 /\ w <= 0 THEN <<>>
  ELSE DecStrFrom(i \div 10, w - 1) \o <<HexChars[(i % 10) + 1]>>

\* "%.3d" % i for i >= 0: at least three decimal digits
PyFormat3d(i) == DecStrFrom(i, 3)

\* checksum.FRAMES_PER_SECOND
FRAMES_PER_SECOND == 75

----------------------------------------------------------------------------
(* class Track, class Table *)

Track(number, start, end, audio) ==
  [number |-> number, start |-> start, end |-> end, audio |-> audio]

Table_getTrackStart(trs, number) ==
  LET t == ListGet(trs, number - 1)
  IN  IF t.status = "error" THEN t ELSE Ok(t.val.start)

Table_getTrackEnd(trs, number) ==
  LET t == ListGet(trs, number - 1)
  IN  IF t.status = "error" THEN t ELSE Ok(t.val.end)

Table_getTrackLength(trs, number) ==
  LET t == ListGet(trs, number - 1)
  IN  IF t.status = "error" THEN t
      ELSE LET d == PySub(t.val.end, t.val.start)
           IN  IF d.status = "error" THEN d ELSE PyAdd(d.val, Some(1))

Table_getAudioTracks(trs) == Cardinality({i \in 1..Len(trs) : trs[i].audio})

RECURSIVE Table_cddbSum(_)
Table_cddbSum(i) == IF i > 0 THEN (i % 10) + Table_cddbSum(i \div 10) ELSE 0

RECURSIVE Table_cddbLoop_audioOnly(_, _, _)
\* the loop, were data tracks left out of the sum as getAccurateRipIds does
Table_cddbLoop_audioOnly(trs, i, n) ==
  IF i > Len(trs) THEN Ok(n)
  ELSE IF ~trs[i].audio THEN Table_cddbLoop_audioOnly(trs, i + 1, n)
  ELSE LET s == Table_getTrackStart(trs, trs[i].number)
       IN  IF s.status = "error" THEN s
           ELSE LET offset == PyAdd(s.val, Some(2 * FRAMES_PER_SECOND))
                IN  IF offset.status = "error" THEN offset
                    ELSE LET seconds == offset.val[1] \div FRAMES_PER_SECOND
                         IN  Table_cddbLoop_audioOnly(trs, i + 1,
                                                      n + Table_cddbSum(seconds))

RECURSIVE Table_cddbLoop(_, _, _)
\* the for loop of getCDDBDiscId from the i-th track on, n so far
Table_cddbLoop(trs, i, n) ==
  IF i > Len(trs) THEN Ok(n)
  ELSE LET s == Table_getTrackStart(trs, trs[i].number)
       IN  IF s.status = "error" THEN s
           ELSE LET offset == PyAdd(s.val, Some(2 * FRAMES_PER_SECOND))
                IN  IF offset.status = "error" THEN offset
                    ELSE LET seconds == offset.val[1] \div FRAMES_PER_SECOND
                         IN  Table_cddbLoop(trs, i + 1, n + Table_cddbSum(seconds))

Table_getCDDBDiscId(trs) ==
  LET n == Table_cddbLoop(trs, 1, 0)
      last == ListGet(trs, -1)
  IN  IF n.status = "error" THEN n
      ELSE IF last.status = "error" THEN last
      ELSE LET end == Table_getTrackEnd(trs, last.val.number)
               first == Table_getTrackStart(trs, 1)
           IN  IF end.status = "error" THEN end
               ELSE IF first.status = "error" THEN first
               ELSE LET frameLength == PySub(end.val, first.val)
                    IN  IF frameLength.status = "error" THEN frameLength
                        ELSE LET t == frameLength.val[1] \div FRAMES_PER_SECOND
                                 value == PyOr(PyOr(PyShl(PyInt(n.val % 255), 6),
                                                    PyShl(PyInt(t), 2)),
                                               PyInt(Len(trs)))
                             IN  Ok(PyFormat08x(value))

RECURSIVE Table_ripLoop_zero(_, _, _, _)
\* the loop, were a start of 0 multiplied as it is
Table_ripLoop_zero(trs, i, discId1, discId2) ==
  IF i > Len(trs) THEN Ok(<<discId1, discId2>>)
  ELSE IF ~trs[i].audio THEN Table_ripLoop_zero(trs, i + 1, discId1, discId2)
  ELSE LET s == Table_getTrackStart(trs, trs[i].number)
       IN  IF s.status = "error" THEN s
           ELSE IF s.val = None THEN Raise("TypeError")
           ELSE LET offset == s.val[1]
                IN  Table_ripLoop_zero(trs, i + 1,
                      HexAdd(discId1, HexOf(offset)),
                      HexAdd(discId2, HexMul(HexOf(offset), trs[i].number)))

RECURSIVE Table_ripLoop(_, _, _, _)
\* the for loop of getAccurateRipIds from the i-th track on
Table_ripLoop(trs, i, discId1, discId2) ==
  IF i > Len(trs) THEN Ok(<<discId1, discId2>>)
  ELSE IF ~trs[i].audio THEN Table_ripLoop(trs, i + 1, discId1, discId2)
  ELSE LET s == Table_getTrackStart(trs, trs[i].number)
       IN  IF s.status = "error" THEN s
           ELSE IF s.val = None THEN Raise("TypeError")
           ELSE LET offset == s.val[1]
                IN  Table_ripLoop(trs, i + 1,
                      HexAdd(discId1, HexOf(offset)),
                      HexAdd(discId2,
                             HexMul(HexOf(IF offset = 0 THEN 1 ELSE offset),
                                    trs[i].number)))

Table_getAccurateRipIds(trs) ==
  LET ids == Table_ripLoop(trs, 1, <<>>, <<>>)
      last == ListGet(trs, -1)
  IN  IF ids.status = "error" THEN ids
      ELSE IF last.status = "error" THEN last
      ELSE LET end == Table_getTrackEnd(trs, last.val.number)
           IN  IF end.status = "error" THEN end
               ELSE LET offset == PyAdd(end.val, Some(1))
                    IN  IF offset.status = "error" THEN offset
                        ELSE LET o == HexOf(offset.val[1])
                                 discId1 == HexAdd(ids.val[1], o)
                                 discId2 == HexAdd(ids.val[2],
                                              HexMul(o, Table_getAudioTracks(trs) + 1))
                             IN  Ok(<<HexStr(HexMask32(discId1), 8),
                                      HexStr(HexMask32(discId2), 8)>>)

\* s[-k] of Python for a str s
StrFromEnd(s, k) ==
  IF k <= Len(s) THEN Ok(s[Len(s) + 1 - k]) ELSE Raise("IndexError")

Table_getAccurateRipURL(trs) ==
  LET ids == Table_getAccurateRipIds(trs)
  IN  IF ids.status = "error" THEN ids
      ELSE LET discId1 == ids.val[1]
               discId2 == ids.val[2]
               d1 == StrFromEnd(discId1, 1)
               d2 == StrFromEnd(discId1, 2)
               d3 == StrFromEnd(discId1, 3)
               cddb == Table_getCDDBDiscId(trs)
           IN  IF d1.status = "error" THEN d1
               ELSE IF d2.status = "error" THEN d2
               ELSE IF d3.status = "error" THEN d3
               ELSE IF cddb.status = "error" THEN cddb
               ELSE Ok(<<"http://www.accuraterip.com/accuraterip/">>
                       \o <<d1.val, "/", d2.val, "/", d3.val, "/dBAR-">>
                       \o PyFormat3d(Len(trs)) \o <<"-">> \o discId1
                       \o <<"-">> \o discId2 \o <<"-">> \o cddb.val \o <<".bin">>)

----------------------------------------------------------------------------
(* class Index, class ITTrack *)

Index(number, absolute, path, relative, counter) ==
  [number |-> number, absolute |-> absolute, path |-> path,
   relative |-> relative, counter |-> counter]

\* ITTrack(number, audio): no index yet
ITTrack(number, audio) == [number |-> number, audio |-> audio, indexes |-> <<>>]

\* index(), were the dict made anew for the index
ITTrack_index_fresh(t, number, absolute, path, relative, counter) ==
  [t EXCEPT !.indexes =
     (number :> Index(number, absolute, path, relative, counter))]

\* self.indexes[number] = Index(...): the dict entry of that key is set
ITTrack_index(t, number, absolute, path, relative, counter) ==
  [t EXCEPT !.indexes =
     (number :> Index(number, absolute, path, relative, counter)) @@ @]

ITTrack_getIndex(t, number) ==
  IF number \in DOMAIN t.indexes THEN Ok(t.indexes[number]) ELSE Raise("KeyError")

RECURSIVE SortedKeys(_)
\* the keys of a dict, sorted ascending
SortedKeys(keys) ==
  IF keys = {} THEN <<>>
  ELSE LET k == CHOOSE x \in keys : \A y \in keys : x <= y
       IN  <<k>> \o SortedKeys(keys \ {k})

ITTrack_getFirstIndex(t) ==
  LET indexes == SortedKeys(DOMAIN t.indexes)
      first == ListGet(indexes, 0)
  IN  IF first.status = "error" THEN first ELSE Ok(t.indexes[first.val])

----------------------------------------------------------------------------
(* class IndexTable *)

IndexTable_getTrackStart(trs, number) ==
  LET track == ListGet(trs, number - 1)
  IN  IF track.status = "error" THEN track
      ELSE LET index == ITTrack_getIndex(track.val, 1)
           IN  IF index.status = "error" THEN index ELSE Ok(index.val.absolute)

\* getTrackEnd, were the leadout read for the last track only
IndexTable_getTrackEnd_lazy(trs, lo, number) ==
  IF number < Len(trs)
  THEN LET track == ListGet(trs, number)
       IN  IF track.status = "error" THEN track
           ELSE LET index == ITTrack_getIndex(track.val, 1)
                IN  IF index.status = "error" THEN index
                    ELSE PySub(index.val.absolute, Some(1))
  ELSE PySub(lo, Some(1))

\* getTrackEnd, were the track itself looked up in place of the next one
IndexTable_getTrackEnd_sameTrack(trs, lo, number) ==
  LET end == PySub(lo, Some(1))
  IN  IF end.status = "error" THEN end
      ELSE IF number < Len(trs)
      THEN LET track == ListGet(trs, number - 1)
           IN  IF track.status = "error" THEN track
               ELSE LET index == ITTrack_getIndex(track.val, 1)
                    IN  IF index.status = "error" THEN index
                        ELSE PySub(index.val.absolute, Some(1))
      ELSE end

IndexTable_getTrackEnd(trs, lo, number) ==
  LET end == PySub(lo, Some(1))
  IN  IF end.status = "error" THEN end
      ELSE IF number < Len(trs)
      THEN LET track == ListGet(trs, number)
           IN  IF track.status = "error" THEN track
               ELSE LET index == ITTrack_getIndex(track.val, 1)
                    IN  IF index.status = "error" THEN index
                        ELSE PySub(index.val.absolute, Some(1))
      ELSE end

IndexTable_getTrackLength(trs, lo, number) ==
  LET track == ListGet(trs, number - 1)
  IN  IF track.status = "error" THEN track
      ELSE LET end == IndexTable_getTrackEnd(trs, lo, number)
               start == IndexTable_getTrackStart(trs, number)
           IN  IF end.status = "error" THEN end
               ELSE IF start.status = "error" THEN start
               ELSE LET d == PySub(end.val, start.val)
                    IN  IF d.status = "error" THEN d ELSE PyAdd(d.val, Some(1))

\* getAudioTracks, were data tracks counted too
IndexTable_getAudioTracks_all(trs) == Len(trs)

IndexTable_getAudioTracks(trs) == Cardinality({i \in 1..Len(trs) : trs[i].audio})

RECURSIVE IndexTable_cddbSum(_)
IndexTable_cddbSum(i) ==
  IF i > 0 THEN (i % 10) + IndexTable_cddbSum(i \div 10) ELSE 0

RECURSIVE IndexTable_cddbLoop(_, _, _)
\* the for loop of getCDDBDiscId from the i-th track on, n so far
IndexTable_cddbLoop(trs, i, n) ==
  IF i > Len(trs) THEN Ok(n)
  ELSE LET s == IndexTable_getTrackStart(trs, trs[i].number)
       IN  IF s.status = "error" THEN s
           ELSE LET offset == PyAdd(s.val, Some(2 * FRAMES_PER_SECOND))
                IN  IF offset.status = "error" THEN offset
                    ELSE LET seconds == offset.val[1] \div FRAMES_PER_SECOND
                         IN  IndexTable_cddbLoop(trs, i + 1,
                                                 n + IndexTable_cddbSum(seconds))

IndexTable_getCDDBDiscId(trs, lo) ==
  LET n == IndexTable_cddbLoop(trs, 1, 0)
      last == ListGet(trs, -1)
  IN  IF n.status = "error" THEN n
      ELSE IF last.status = "error" THEN last
      ELSE LET end == IndexTable_getTrackEnd(trs, lo, last.val.number)
               first == IndexTable_getTrackStart(trs, 1)
           IN  IF end.status = "error" THEN end
               ELSE IF first.status = "error" THEN first
               ELSE LET frameLength == PySub(end.val, first.val)
                    IN  IF frameLength.status = "error" THEN frameLength
                        ELSE LET t == frameLength.val[1] \div FRAMES_PER_SECOND
                                 value == PyOr(PyOr(PyShl(PyInt(n.val % 255), 6),
                                                    PyShl(PyInt(t), 2)),
                                               PyInt(Len(trs)))
                             IN  Ok(PyFormat08x(value))

RECURSIVE IndexTable_ripLoop(_, _, _, _)
\* the for loop of getAccurateRipIds from the i-th track on
IndexTable_ripLoop(trs, i, discId1, discId2) ==
  IF i > Len(trs) THEN Ok(<<discId1, discId2>>)
  ELSE IF ~trs[i].audio THEN IndexTable_ripLoop(trs, i + 1, discId1, discId2)
  ELSE LET s == IndexTable_getTrackStart(trs, trs[i].number)
       IN  IF s.status = "error" THEN s
           ELSE IF s.val = None THEN Raise("TypeError")
           ELSE LET offset == s.val[1]
                IN  IndexTable_ripLoop(trs, i + 1,
                      HexAdd(discId1, HexOf(offset)),
                      HexAdd(discId2,
                             HexMul(HexOf(IF offset = 0 THEN 1 ELSE offset),
                                    trs[i].number)))

IndexTable_getAccurateRipIds(trs, lo) ==
  LET ids == IndexTable_ripLoop(trs, 1, <<>>, <<>>)
      last == ListGet(trs, -1)
  IN  IF ids.status = "error" THEN ids
      ELSE IF last.status = "error" THEN last
      ELSE LET end == IndexTable_getTrackEnd(trs, lo, last.val.number)
           IN  IF end.status = "error" THEN end
               ELSE LET offset == PyAdd(end.val, Some(1))
                    IN  IF offset.status = "error" THEN offset
                        ELSE LET o == HexOf(offset.val[1])
                                 discId1 == HexAdd(ids.val[1], o)
                                 discId2 ==
                                   HexAdd(ids.val[2],
                                          HexMul(o, IndexTable_getAudioTracks(trs) + 1))
                             IN  Ok(<<HexStr(HexMask32(discId1), 8),
                                      HexStr(HexMask32(discId2), 8)>>)

IndexTable_getAccurateRipURL(trs, lo) ==
  LET ids == IndexTable_getAccurateRipIds(trs, lo)
  IN  IF ids.status = "error" THEN ids
      ELSE LET discId1 == ids.val[1]
               discId2 == ids.val[2]
               d1 == StrFromEnd(discId1, 1)
               d2 == StrFromEnd(discId1, 2)
               d3 == StrFromEnd(discId1, 3)
               cddb == IndexTable_getCDDBDiscId(trs, lo)
           IN  IF d1.status = "error" THEN d1
               ELSE IF d2.status = "error" THEN d2
               ELSE IF d3.status = "error" THEN d3
               ELSE IF cddb.status = "error" THEN cddb
               ELSE Ok(<<"http://www.accuraterip.com/accuraterip/">>
                       \o <<d1.val, "/", d2.val, "/", d3.val, "/dBAR-">>
                       \o PyFormat3d(Len(trs)) \o <<"-">> \o discId1
                       \o <<"-">> \o discId2 \o <<"-">> \o cddb.val \o <<".bin">>)

\* common.framesToMSF: frames as minutes, seconds and frames
framesToMSF(frames) ==
  IF frames = None THEN Raise("TypeError")
  ELSE LET f == frames[1] % FRAMES_PER_SECOND
           s == (frames[1] \div FRAMES_PER_SECOND) % 60
           m == (frames[1] \div FRAMES_PER_SECOND) \div 60
       IN  Ok(<<m, s, f>>)

\* the lines cue() joins: 'FILE "<path>" WAVE', '  TRACK <NN> AUDIO',
\* '    INDEX <NN> <MM:SS:FF>' and the empty last line
FileLine(path) == [kind |-> "FILE", path |-> path]

TrackLine(n) == [kind |-> "TRACK", number |-> n, mode |-> "AUDIO"]

IndexLine(number, msf) == [kind |-> "INDEX", number |-> number, msf |-> msf]

EmptyLine == [kind |-> ""]

RECURSIVE IndexTable_cueIndexes(_, _, _, _, _)
\* the inner for loop of cue() from the j-th sorted index number on
IndexTable_cueIndexes(track, indexes, j, currentPath, lines) ==
  IF j > Len(indexes) THEN Ok(lines)
  ELSE LET number == indexes[j]
           index == track.indexes[number]
           file == IF index.path # currentPath
                   THEN <<FileLine(index.path)>> ELSE <<>>
           msf == framesToMSF(index.relative)
       IN  IF msf.status = "error" THEN msf
           ELSE IndexTable_cueIndexes(track, indexes, j + 1, currentPath,
                  lines \o file \o <<IndexLine(number, msf.val)>>)

RECURSIVE IndexTable_cueTracks(_, _, _, _)
\* the outer for loop of cue() from the i-th track on
IndexTable_cueTracks(trs, i, currentPath, lines) ==
  IF i > Len(trs) THEN Ok(lines)
  ELSE LET r == IndexTable_cueIndexes(trs[i], SortedKeys(DOMAIN trs[i].indexes), 1,
                                      currentPath, Append(lines, TrackLine(i)))
       IN  IF r.status = "error" THEN r
           ELSE IndexTable_cueTracks(trs, i + 1, currentPath, r.val)

IndexTable_cue(trs) ==
  LET track == ListGet(trs, 0)
  IN  IF track.status = "error" THEN track
      ELSE LET first == ITTrack_getFirstIndex(track.val)
           IN  IF first.status = "error" THEN first
               ELSE LET path == first.val.path
                        currentPath == path
                        r == IndexTable_cueTracks(trs, 1, currentPath,
                                                  <<FileLine(path)>>)
                    IN  IF r.status = "error" THEN r
                        ELSE Ok(Append(r.val, EmptyLine))

----------------------------------------------------------------------------
(* The inputs *)

\* where a leadout may be: at a frame of Frames, or one second past the last
Leadouts == Frames \cup {BigFrame + FRAMES_PER_SECOND}

\* last frames of a Track: the frame before a leadout
Ends == {l - 1 : l \in Leadouts \ {0}}

RECURSIVE TrackLists(_)
\* the lists of n Track a drive scan yields: numbered 1..n, each ending at or
\* after its start and before the next one starts
TrackLists(n) ==
  IF n = 0 THEN {<<>>}
  ELSE UNION {
         {Append(l, Track(n, Some(s), Some(e), a)) :
            <<s, e, a>> \in {x \in Frames \X Ends \X BOOLEAN :
                               /\ x[1] <= x[2]
                               /\ n > 1 => l[n - 1].end[1] < x[1]}} :
         l \in TrackLists(n - 1)}

TrackTables == UNION {TrackLists(n) : n \in 0..MaxTracks}

\* track numbers the boundary queries are asked about: 1..N, 0 and N + 1
QueryNumbers == 0..(Len(tracks) + 1)

Called(op, arg) == [op |-> op, arg |-> arg]

----------------------------------------------------------------------------
(* The state machine *)

\* Table(tracks)
InitTable ==
  /\ kind = "Table"
  /\ tracks \in TrackTables
  /\ leadout = None
  /\ call = Called("Table", None)
  /\ ret = Ok(None)

\* IndexTable()
InitIndexTable ==
  /\ kind = "IndexTable"
  /\ tracks = <<>>
  /\ leadout = None
  /\ call = Called("IndexTable", None)
  /\ ret = Ok(None)

Init == InitTable \/ InitIndexTable

\* a query: the object is left as it is
Query(op, arg, result) ==
  /\ call' = Called(op, arg)
  /\ ret' = result
  /\ UNCHANGED <<kind, tracks, leadout>>

CallTable_getTrackStart(number) ==
  /\ kind = "Table"
  /\ Query("getTrackStart", <<number>>, Table_getTrackStart(tracks, number))

CallTable_getTrackEnd(number) ==
  /\ kind = "Table"
  /\ Query("getTrackEnd", <<number>>, Table_getTrackEnd(tracks, number))

CallTable_getTrackLength(number) ==
  /\ kind = "Table"
  /\ Query("getTrackLength", <<number>>, Table_getTrackLength(tracks, number))

CallTable_getCDDBDiscId ==
  /\ kind = "Table"
  /\ Query("getCDDBDiscId", None, Table_getCDDBDiscId(tracks))

CallTable_getAccurateRipIds ==
  /\ kind = "Table"
  /\ Query("getAccurateRipIds", None, Table_getAccurateRipIds(tracks))

CallTable_getAccurateRipURL ==
  /\ kind = "Table"
  /\ Query("getAccurateRipURL", None, Table_getAccurateRipURL(tracks))

\* it.tracks.append(ITTrack(number, audio)), numbered after the last one
AppendTrack(audio) ==
  /\ kind = "IndexTable"
  /\ Len(tracks) < MaxTracks
  /\ tracks' = Append(tracks, ITTrack(Len(tracks) + 1, audio))
  /\ call' = Called("append", None)
  /\ ret' = Ok(None)
  /\ UNCHANGED <<kind, leadout>>

\* it.tracks[i - 1].index(number, absolute, path, relative, counter)
CallITTrack_index(i, number, absolute, path, relative, counter) ==
  /\ kind = "IndexTable"
  /\ i \in 1..Len(tracks)
  /\ tracks' = [tracks EXCEPT
                  ![i] = ITTrack_index(@, number, absolute, path, relative, counter)]
  /\ call' = Called("index", <<i, number>>)
  /\ ret' = Ok(None)
  /\ UNCHANGED <<kind, leadout>>

\* it.leadout = offset
SetLeadout(offset) ==
  /\ kind = "IndexTable"
  /\ leadout' = Some(offset)
  /\ call' = Called("leadout", None)
  /\ ret' = Ok(None)
  /\ UNCHANGED <<kind, tracks>>

CallIndexTable_getTrackStart(number) ==
  /\ kind = "IndexTable"
  /\ Query("getTrackStart", <<number>>, IndexTable_getTrackStart(tracks, number))

CallIndexTable_getTrackEnd(number) ==
  /\ kind = "IndexTable"
  /\ Query("getTrackEnd", <<number>>, IndexTable_getTrackEnd(tracks, leadout, number))

CallIndexTable_getTrackLength(number) ==
  /\ kind = "IndexTable"
  /\ Query("getTrackLength", <<number>>,
           IndexTable_getTrackLength(tracks, leadout, number))

CallIndexTable_getCDDBDiscId ==
  /\ kind = "IndexTable"
  /\ Query("getCDDBDiscId", None, IndexTable_getCDDBDiscId(tracks, leadout))

CallIndexTable_getAccurateRipIds ==
  /\ kind = "IndexTable"
  /\ Query("getAccurateRipIds", None, IndexTable_getAccurateRipIds(tracks, leadout))

CallIndexTable_getAccurateRipURL ==
  /\ kind = "IndexTable"
  /\ Query("getAccurateRipURL", None, IndexTable_getAccurateRipURL(tracks, leadout))

CallIndexTable_cue ==
  /\ kind = "IndexTable"
  /\ Query("cue", None, IndexTable_cue(tracks))

\* Tables of either kind, built from disc positions, and their boundary and
\* identifier queries
Next ==
  \/ \E number \in QueryNumbers : CallTable_getTrackStart(number)
  \/ \E number \in QueryNumbers : CallTable_getTrackEnd(number)
  \/ \E number \in QueryNumbers : CallTable_getTrackLength(number)
  \/ CallTable_getCDDBDiscId
  \/ CallTable_getAccurateRipIds
  \/ CallTable_getAccurateRipURL
  \/ \E audio \in BOOLEAN : AppendTrack(audio)
  \/ \E i \in 1..Len(tracks), absolute \in {None} \cup {Some(f) : f \in Frames} :
       CallITTrack_index(i, 1, absolute, None, None, None)
  \/ \E offset \in Leadouts : SetLeadout(offset)
  \/ \E number \in QueryNumbers : CallIndexTable_getTrackStart(number)
  \/ \E number \in QueryNumbers : CallIndexTable_getTrackEnd(number)
  \/ \E number \in QueryNumbers : CallIndexTable_getTrackLength(number)
  \/ CallIndexTable_getCDDBDiscId
  \/ CallIndexTable_getAccurateRipIds
  \/ CallIndexTable_getAccurateRipURL

Spec == Init /\ [][Next]_vars

\* An IndexTable built from the indexes of a cue sheet, and written as one
NextCue ==
  \/ AppendTrack(TRUE)
  \/ \E i \in 1..Len(tracks), number \in IndexNumbers,
        path \in Paths, relative \in Relatives :
       CallITTrack_index(i, number, None, Some(path), Some(relative), None)
  \/ CallIndexTable_cue

SpecCue == InitIndexTable /\ [][NextCue]_vars

----------------------------------------------------------------------------
(* Notions the properties are stated in *)

N == Len(tracks)

IdentifierQueries == {"getCDDBDiscId", "getAccurateRipIds", "getAccurateRipURL"}

\* track n has an index 1 whose absolute position is known
HasStart(n) ==
  \/ kind = "Table"
  \/ /\ 1 \in DOMAIN tracks[n].indexes
     /\ tracks[n].indexes[1].absolute # None

\* trackStart(n) of the data model: Track.start, or index 1's absolute position
StartOf(n) ==
  IF kind = "Table" THEN tracks[n].start[1] ELSE tracks[n].indexes[1].absolute[1]

\* trackEnd(n) of the data model: Track.end, or the frame before the next
\* track's index 1, the frame before the leadout for the last track
EndOf(n) ==
  IF kind = "Table" THEN tracks[n].end[1]
  ELSE IF n = N THEN leadout[1] - 1
  ELSE tracks[n + 1].indexes[1].absolute[1] - 1

LastEndKnown == kind = "Table" \/ leadout # None

AudioNumbers == {n \in 1..N : tracks[n].audio}

RECURSIVE HexSum(_, _)
\* the sum of term[n] over the numbers n of S
HexSum(S, term) ==
  IF S = {} THEN <<>>
  ELSE LET n == CHOOSE x \in S : TRUE
       IN  HexAdd(term[n], HexSum(S \ {n}, term))

RECURSIVE NatSum(_, _)
NatSum(S, term) ==
  IF S = {} THEN 0
  ELSE LET n == CHOOSE x \in S : TRUE
       IN  term[n] + NatSum(S \ {n}, term)

\* the sum of the base-10 digits of i < 10^10
DigitSum(i) ==
  LET pow10 == <<1, 10, 100, 1000, 10000, 100000, 1000000, 10000000,
                 100000000, 1000000000>>
  IN  NatSum(1..10, [p \in 1..10 |-> (i \div pow10[p]) % 10])

SameResult(a, b) == a.status = b.status /\ a.val = b.val

\* the call was a boundary query about one of the tracks 1..N
AboutATrack == call.arg # None /\ call.arg[1] \in 1..N

IsHexChar(c) == \E d \in 1..16 : HexChars[d] = c

\* the lines of cue()
RECURSIVE VisitFrom(_)
\* the indexes in the order cue() visits them: by track, then index number
VisitFrom(i) ==
  IF i > N THEN <<>>
  ELSE LET keys == SortedKeys(DOMAIN tracks[i].indexes)
       IN  [j \in 1..Len(keys) |-> tracks[i].indexes[keys[j]]] \o VisitFrom(i + 1)

\* the positions of the INDEX lines, in order
IndexLinePositions(lines) ==
  LET S == {p \in 1..Len(lines) : lines[p].kind = "INDEX"}
  IN  SortedKeys(S)

\* the path of the last FILE line among lines[1..p]
LastFilePath(lines, p) ==
  LET q == CHOOSE x \in 1..p :
             /\ lines[x].kind = "FILE"
             /\ \A y \in (x + 1)..p : lines[y].kind # "FILE"
  IN  lines[q].path

\* the AccurateRip ids as sums over the data model, before the cut to 32 bits
ClaimedId1 ==
  HexAdd(HexSum(AudioNumbers, [n \in 1..N |-> HexOf(StartOf(n))]),
         HexOf(EndOf(N) + 1))

ClaimedId2 ==
  HexAdd(HexSum(AudioNumbers, [n \in 1..N |-> HexMul(HexOf(Max(StartOf(n), 1)), n)]),
         HexMul(HexOf(EndOf(N) + 1), Cardinality(AudioNumbers) + 1))

\* the CDDB value from the data model
ClaimedCDDBValue ==
  LET n == NatSum(1..N, [k \in 1..N |-> DigitSum((StartOf(k) + 150) \div 75)])
      totalSeconds == (EndOf(N) - StartOf(1)) \div 75
  IN  PyOr(PyOr(PyShl(PyInt(n % 255), 6), PyShl(PyInt(totalSeconds), 2)), PyInt(N))

\* the identifier queries by name
Table_query(op, trs) ==
  IF op = "getCDDBDiscId" THEN Table_getCDDBDiscId(trs)
  ELSE IF op = "getAccurateRipIds" THEN Table_getAccurateRipIds(trs)
  ELSE Table_getAccurateRipURL(trs)

IndexTable_query(op, trs, lo) ==
  IF op = "getCDDBDiscId" THEN IndexTable_getCDDBDiscId(trs, lo)
  ELSE IF op = "getAccurateRipIds" THEN IndexTable_getAccurateRipIds(trs, lo)
  ELSE IndexTable_getAccurateRipURL(trs, lo)

\* the Tables of the disc of this IndexTable: the ends of all tracks but the
\* last are not the IndexTable's to say
TablesOfSameDisc ==
  {[n \in 1..N |-> Track(n, Some(StartOf(n)),
                         IF n = N THEN Some(leadout[1] - 1) ELSE Some(ends[n]),
                         tracks[n].audio)] :
     ends \in [1..(N - 1) -> Ends]}

\* the IndexTable of the disc of this Table
IndexTableOfSameDisc ==
  [n \in 1..N |->
     ITTrack_index(ITTrack(n, tracks[n].audio), 1, tracks[n].start, None, None, None)]

----------------------------------------------------------------------------
(* C1: after cue() on an IndexTable with at least one track, the first     *)
(* line is the FILE line of the first track's first index, and a FILE line *)
(* stands immediately before an INDEX line exactly when that index's path  *)
(* differs from the path of the most recently written FILE line; two       *)
(* consecutive indices of one path never repeat the FILE line.             *)

C1_CueFileLines ==
  (call.op = "cue" /\ ret.status = "ok" /\ N >= 1) =>
    LET lines == ret.val
        visit == VisitFrom(1)
        pos == IndexLinePositions(lines)
    IN  /\ lines[1] = FileLine(visit[1].path)
        /\ Len(pos) = Len(visit)
        /\ \A j \in 1..Len(visit) :
             LET p == pos[j]
                 fresh == lines[p - 1].kind = "FILE"
                 before == IF fresh THEN p - 2 ELSE p - 1
             IN  /\ fresh <=> (visit[j].path # LastFilePath(lines, before))
                 /\ fresh => lines[p - 1].path = visit[j].path
        /\ \A j \in 2..Len(visit) :
             visit[j].path = visit[j - 1].path => lines[pos[j] - 1].kind # "FILE"

----------------------------------------------------------------------------
(* C2: on an IndexTable whose leadout is unset, getTrackLength of the last *)
(* track returns a result that stands for "unknown length": the call does  *)
(* not raise, and what it returns is no number that is zero or negative.   *)

C2_UnknownLength ==
  (kind = "IndexTable" /\ leadout = None /\ N >= 1
     /\ call = Called("getTrackLength", <<N>>)) =>
    /\ ret.status = "ok"
    /\ ~(ret.val # None /\ ret.val[1] <= 0)

----------------------------------------------------------------------------
(* C3: getCDDBDiscId() of a table with at least one track returns exactly  *)
(* 8 characters, each a lowercase hex digit, whatever the offsets are.     *)

C3_CDDBEightHexChars ==
  (call.op = "getCDDBDiscId" /\ N >= 1 /\ ret.status = "ok") =>
    /\ Len(ret.val) = 8
    /\ \A p \in 1..Len(ret.val) : IsHexChar(ret.val[p])

----------------------------------------------------------------------------
(* C4 as stated: on an IndexTable whose leadout is unset, every boundary   *)
(* query about a track 1..N and every identifier query raises.             *)

C4_AllQueriesFail ==
  (kind = "IndexTable" /\ leadout = None) =>
    /\ (call.op \in {"getTrackStart", "getTrackEnd", "getTrackLength"}
          /\ AboutATrack) => ret.status = "error"
    /\ call.op \in IdentifierQueries => ret.status = "error"

(* C4 as amended: on an IndexTable whose leadout is unset, getTrackEnd and *)
(* getTrackLength about a track 1..N and every identifier query raise;     *)
(* getTrackStart does not read the leadout: it returns the absolute        *)
(* position of the track's index 1 whenever the track has that index.      *)

C4_LeadoutQueriesFail ==
  (kind = "IndexTable" /\ leadout = None) =>
    /\ (call.op \in {"getTrackEnd", "getTrackLength"} /\ AboutATrack)
         => ret.status = "error"
    /\ call.op \in IdentifierQueries => ret.status = "error"
    /\ (call.op = "getTrackStart" /\ AboutATrack
          /\ 1 \in DOMAIN tracks[call.arg[1]].indexes)
         => /\ ret.status = "ok"
            /\ ret.val = tracks[call.arg[1]].indexes[1].absolute

\* getTrackEnd(1) raised on two tracks where only the leadout is missing
C4_Witness ==
  /\ kind = "IndexTable" /\ leadout = None /\ N = 2
  /\ HasStart(1) /\ HasStart(2)
  /\ call = Called("getTrackEnd", <<1>>)
  /\ ret.status = "error"

----------------------------------------------------------------------------
(* C5: for a table with at least one track whose audio tracks have known   *)
(* starts and whose last track has a known end, getAccurateRipIds()        *)
(* returns id1 = (sum of trackStart(n) over audio tracks + trackEnd(N) + 1)*)
(* mod 2^32 and id2 = (sum of max(trackStart(n), 1) * n over audio tracks  *)
(* + (trackEnd(N) + 1) * (audio tracks + 1)) mod 2^32, both as 8 hex       *)
(* digits; N is the last track, audio or data.                             *)

C5_AccurateRipIds ==
  (call.op = "getAccurateRipIds" /\ N >= 1 /\ LastEndKnown
     /\ \A n \in AudioNumbers : HasStart(n)) =>
    /\ ret.status = "ok"
    /\ ret.val = <<HexStr(HexMask32(ClaimedId1), 8), HexStr(HexMask32(ClaimedId2), 8)>>

\* the ids of two tracks were asked: an audio track at frame 0, then a data
\* track
C5_Witness ==
  /\ call.op = "getAccurateRipIds" /\ ret.status = "ok"
  /\ N = 2 /\ tracks[1].audio /\ ~tracks[2].audio
  /\ HasStart(1) /\ StartOf(1) = 0

----------------------------------------------------------------------------
(* C6: for a table with at least one track, all starts and the last end    *)
(* known, getCDDBDiscId() returns the hex form of                          *)
(* ((n mod 255) << 24) | (totalSeconds << 8) | trackCount, n the sum over  *)
(* all tracks of the digit sum of floor((trackStart(k) + 150) / 75) and    *)
(* totalSeconds = floor((trackEnd(last) - trackStart(1)) / 75).            *)

C6_CDDBValue ==
  (call.op = "getCDDBDiscId" /\ N >= 1 /\ LastEndKnown
     /\ \A n \in 1..N : HasStart(n)) =>
    /\ ret.status = "ok"
    /\ ret.val = PyFormat08x(ClaimedCDDBValue)

\* a data track counted, and seconds of two digits
C6_Witness ==
  /\ call.op = "getCDDBDiscId" /\ ret.status = "ok"
  /\ N = 2 /\ ~tracks[2].audio
  /\ HasStart(2) /\ StartOf(2) = 675

----------------------------------------------------------------------------
(* C7: on an IndexTable with the leadout set and an index 1 of known       *)
(* absolute position on every track, getTrackEnd(N) = leadout - 1,         *)
(* getTrackEnd(n) = absolute position of index 1 of track n + 1, minus 1,  *)
(* for n < N, and getTrackLength(n) = getTrackEnd(n) - getTrackStart(n) + 1*)

C7_IndexTableEnds ==
  (kind = "IndexTable" /\ leadout # None /\ N >= 1 /\ AboutATrack
     /\ \A n \in 1..N : HasStart(n)) =>
    LET n == call.arg[1]
    IN  /\ (call.op = "getTrackEnd" /\ n = N)
             => ret.status = "ok" /\ ret.val = Some(leadout[1] - 1)
        /\ (call.op = "getTrackEnd" /\ n < N)
             => /\ ret.status = "ok"
                /\ ret.val = Some(tracks[n + 1].indexes[1].absolute[1] - 1)
        /\ call.op = "getTrackLength"
             => /\ ret.status = "ok"
                /\ ret.val = Some(EndOf(n) - StartOf(n) + 1)

\* the length of the first of two tracks was asked
C7_Witness ==
  /\ kind = "IndexTable" /\ leadout # None /\ N = 2
  /\ HasStart(1) /\ HasStart(2)
  /\ call = Called("getTrackLength", <<1>>)
  /\ ret.status = "ok"

----------------------------------------------------------------------------
(* C8: a Table and an IndexTable of the same disc (as many tracks, the same*)
(* audio flags, every index 1 at the Track's start, the leadout one past   *)
(* the last Track's end) return the same from getCDDBDiscId(),             *)
(* getAccurateRipIds() and getAccurateRipURL().                            *)

C8_SameIdentifiers ==
  (call.op \in IdentifierQueries /\ N >= 1) =>
    /\ (kind = "IndexTable" /\ leadout # None /\ \A n \in 1..N : HasStart(n))
         => \A T \in TablesOfSameDisc : SameResult(Table_query(call.op, T), ret)
    /\ kind = "Table"
         => SameResult(IndexTable_query(call.op, IndexTableOfSameDisc,
                                        Some(tracks[N].end[1] + 1)), ret)

\* the URL of an IndexTable of two tracks, one of them data, was asked
C8_Witness ==
  /\ kind = "IndexTable" /\ leadout # None /\ N = 2
  /\ HasStart(1) /\ HasStart(2) /\ ~tracks[1].audio
  /\ call.op = "getAccurateRipURL"
  /\ ret.status = "ok"

----------------------------------------------------------------------------
(* C9 as stated: an index() call never replaces or alters an index that is *)
(* already stored, whatever its number.                                    *)

C9_IndexOnlyAppends ==
  [][call'.op = "index" =>
       \A i \in 1..N : \A k \in DOMAIN tracks[i].indexes :
         /\ k \in DOMAIN tracks'[i].indexes
         /\ tracks'[i].indexes[k] = tracks[i].indexes[k]]_vars

(* C9 as amended: an index() call with number k stores the new index under *)
(* k, replacing the one stored under k before if there was one, and leaves *)
(* the indices under every other number, and every other track, unchanged. *)

C9_IndexSetsOneKey ==
  [][call'.op = "index" =>
       LET i == call'.arg[1]
           k == call'.arg[2]
       IN  /\ Len(tracks') = N
           /\ \A j \in (1..N) \ {i} : tracks'[j] = tracks[j]
           /\ tracks'[i].number = tracks[i].number
           /\ tracks'[i].audio = tracks[i].audio
           /\ DOMAIN tracks'[i].indexes = DOMAIN tracks[i].indexes \cup {k}
           /\ tracks'[i].indexes[k].number = k
           /\ \A m \in DOMAIN tracks[i].indexes \ {k} :
                tracks'[i].indexes[m] = tracks[i].indexes[m]]_vars

\* index() was called on a track that holds an index under another number
C9_Witness ==
  /\ call.op = "index"
  /\ Cardinality(DOMAIN tracks[call.arg[1]].indexes) = 2

----------------------------------------------------------------------------
(* C10: on a table with N >= 1 tracks (the leadout set, for an IndexTable),*)
(* getTrackStart(k) and getTrackEnd(k) raise for every k outside 1..N.     *)

C10_OutOfRangeFails ==
  (call.op \in {"getTrackStart", "getTrackEnd"} /\ N >= 1
     /\ (kind = "IndexTable" => leadout # None)
     /\ call.arg[1] \notin 1..N) =>
    ret.status = "error"

====
